---- MODULE Spec2Model ----
(***************************************************************************)
(* Model of src/backend/py_template/devdonalds.py: the cookbook file, the  *)
(* /entry handler (create_entry) and the /summary handler (summary) with   *)
(* its expansion loop, each iteration taken in two steps.                  *)
(***************************************************************************)
EXTENDS Integers, Sequences, FiniteSets, TLC

(* ---------------------------------------------------------------- bounds *)
MaxCookTime == 2
MaxQuantity == 2
MaxItems == 2
MaxQueueLen == 6
MaxDemand == 48
MaxLen == 4            \* longest recipeName posted to /parse

(* names, in the order the bounded cookbooks of InitSummary list them *)
NameOrder == <<"A", "B", "C", "F">>
Names == {NameOrder[i] : i \in 1..Len(NameOrder)}
(* the names the requests of Spec carry, as entry name, as requiredItems   *)
(* name and as summary query; a recipe can be stored before what it names  *)
EntryNames == {"A", "B"}

(* ------------------------------------------------------- python helpers *)
None == [type |-> "none"]

NoResponse == [status |-> 0]

Min(S) == CHOOSE i \in S : \A j \in S : i <= j

(* look_for_item: the first record whose name matches, or None *)
look_for_item(n, cb) ==
    LET hits == {i \in 1..Len(cb) : cb[i].name = n}
    IN IF hits = {} THEN None ELSE cb[Min(hits)]

(* the dict `ingredients`, kept in insertion order as python keeps it:    *)
(* a sequence of [name, quantity, unit_cook_time], one record per key     *)
DictHas(d, k) == \E i \in 1..Len(d) : d[i].name = k
DictIndex(d, k) == Min({i \in 1..Len(d) : d[i].name = k})
DictGet(d, k) == d[DictIndex(d, k)]
(* a lookup where the code pops: the key stays in the dict *)
DictPeek(d, k) == d
DictPop(d, k) == SelectSeq(d, LAMBDA e : e.name # k)

(* --------------------------------------------------------- create_entry *)
ItemNames(items) == {items[i].name : i \in 1..Len(items)}

(* a name check that only looks at entries of the request's own type *)
NameExistsSameType(data, cb) ==
    \E i \in 1..Len(cb) : cb[i].name = data.name /\ cb[i].type = data.type
(* is_present (line 110) *)
NameExists(data, cb) ==
    \E i \in 1..Len(cb) : cb[i].name = data.name

(* the response of create_entry for request `data` on cookbook `cb` *)
create_entry(data, cb) ==
    IF data.type \notin {"recipe", "ingredient"}
    THEN [status |-> 400, error |-> "Invalid type"]
    ELSE IF data.type = "ingredient" /\ data.cookTime < 0
    THEN [status |-> 400, error |-> "Invalid cookTime"]
    ELSE IF NameExists(data, cb)
    THEN [status |-> 400, error |-> "Name already exists"]
    ELSE IF data.type = "recipe"
            /\ Cardinality(ItemNames(data.requiredItems)) # Len(data.requiredItems)
    THEN [status |-> 400, error |-> "Required items must have unique names"]
    ELSE [status |-> 200]

(* the line written at the head of the file *)
store_cookbook_first(data, cb) == <<data>> \o cb
(* store_cookbook: append one line to the file *)
store_cookbook(data, cb) == Append(cb, data)

(* -------------------------------------------------------------- summary *)
RootError == [status |-> 400, error |-> "Recipe not found"]
ItemError == [status |-> 400, error |-> "Items not in the cookbook"]
KeyError == [status |-> 500, error |-> "KeyError"]

(* a new key created at quantity 0, its first contribution dropped *)
NewKeyAtZero(n, q) == [name |-> n, quantity |-> 0, unit_cook_time |-> 0]
(* a new value of the dict (lines 150-153, 183-186) *)
NewKey(n, q) == [name |-> n, quantity |-> q, unit_cook_time |-> 0]

(* the for loop body without the multiplication by the popped quantity *)
AddQuantityUnscaled(ingr, item, popped_item_quantity) ==
    IF DictHas(ingr, item.name)
    THEN [ingr EXCEPT ![DictIndex(ingr, item.name)].quantity = @ + item.quantity]
    ELSE Append(ingr, NewKey(item.name, item.quantity))

(* the for loop body that only updates keys the dict already has *)
AddQuantityExistingOnly(ingr, item, popped_item_quantity) ==
    IF DictHas(ingr, item.name)
    THEN [ingr EXCEPT ![DictIndex(ingr, item.name)].quantity =
                          @ + popped_item_quantity * item.quantity]
    ELSE ingr

(* the for loop body that assigns the quantity where the code adds to it *)
AddQuantityOverwrite(ingr, item, popped_item_quantity) ==
    IF DictHas(ingr, item.name)
    THEN [ingr EXCEPT ![DictIndex(ingr, item.name)].quantity =
                          popped_item_quantity * item.quantity]
    ELSE Append(ingr, NewKey(item.name, popped_item_quantity * item.quantity))

(* one pass of the for loop over requiredItems (lines 176-186) *)
AddQuantity(ingr, item, popped_item_quantity) ==
    IF DictHas(ingr, item.name)
    THEN [ingr EXCEPT ![DictIndex(ingr, item.name)].quantity =
                          @ + popped_item_quantity * item.quantity]
    ELSE Append(ingr, NewKey(item.name, popped_item_quantity * item.quantity))

RECURSIVE AddRequired(_, _, _, _)
AddRequired(items, q, ingr, popped_item_quantity) ==
    IF items = <<>>
    THEN [queue |-> q, ingredients |-> ingr]
    ELSE AddRequired(Tail(items), Append(q, Head(items).name),
                     AddQuantity(ingr, Head(items), popped_item_quantity),
                     popped_item_quantity)

(* a popped quantity that defaults to 1 for a key that is absent *)
PoppedQuantityDefaultOne(ingr, k) ==
    IF DictHas(ingr, k) THEN DictGet(ingr, k).quantity ELSE 1
(* the quantity popped for a recipe: its accumulated demand, 0 if absent *)
PoppedQuantity(ingr, k) ==
    IF DictHas(ingr, k) THEN DictGet(ingr, k).quantity ELSE 0

(* the cook time never written: every key keeps the placeholder 0 *)
SetCookTimeSkipped(ingr, k, t) == ingr
(* line 191 *)
SetCookTime(ingr, k, t) ==
    [ingr EXCEPT ![DictIndex(ingr, k)].unit_cook_time = t]

(* the head of the queue read and left in the queue *)
DequeuedPeek(q) == q
(* the queue after queue.pop(0) (line 158) *)
Dequeued(q) == Tail(q)

(* a missing item skipped instead of failing the request *)
MissingItemSkipped(q, ingr) ==
    [queue |-> Tail(q), ingredients |-> ingr, response |-> NoResponse]
(* lines 161-162: the early return for a name that is not in the cookbook *)
MissingItem(q, ingr) ==
    [queue |-> Tail(q), ingredients |-> ingr, response |-> ItemError]

(* the rest of an iteration, for an item that was found (lines 164-191); *)
(* q is the queue after the pop of line 158                               *)
Expand(current_item, q, ingr) ==
    IF current_item.type = "recipe"
    THEN LET r == AddRequired(current_item.requiredItems, q,
                              DictPop(ingr, current_item.name),
                              PoppedQuantity(ingr, current_item.name))
         IN [queue |-> r.queue, ingredients |-> r.ingredients,
             response |-> NoResponse]
    ELSE IF current_item.type = "ingredient"
    THEN IF DictHas(ingr, current_item.name)
         THEN [queue |-> q,
               ingredients |-> SetCookTime(ingr, current_item.name,
                                           current_item.cookTime),
               response |-> NoResponse]
         ELSE [queue |-> q, ingredients |-> ingr, response |-> KeyError]
    ELSE [queue |-> q, ingredients |-> ingr, response |-> NoResponse]

(* one iteration of `while queue` (lines 158-191) *)
LoopBody(q, ingr, cb) ==
    LET current_item == look_for_item(Head(q), cb)
    IN IF current_item.type = "none"
       THEN MissingItem(q, ingr)
       ELSE Expand(current_item, Dequeued(q), ingr)

RECURSIVE TotalCookTime(_)
TotalCookTime(ingr) ==
    IF ingr = <<>> THEN 0
    ELSE Head(ingr).quantity * Head(ingr).unit_cook_time + TotalCookTime(Tail(ingr))

IngredientsList(ingr) ==
    [i \in 1..Len(ingr) |-> [name |-> ingr[i].name, quantity |-> ingr[i].quantity]]

SummaryResponse(n, ingr) ==
    [status |-> 200, name |-> n, cookTime |-> TotalCookTime(ingr),
     ingredients |-> IngredientsList(ingr)]

(* the check of the root name (lines 142-144): one response for a name   *)
(* that is absent and for a name that is not a recipe                     *)
RootResponse(n, cb) ==
    IF look_for_item(n, cb).type # "recipe" THEN RootError ELSE NoResponse

(* the whole handler on cookbook `cb`, the loop run to its end; defined   *)
(* where the loop terminates                                              *)
RECURSIVE ExpansionLoop(_, _, _, _)
ExpansionLoop(n, q, ingr, cb) ==
    IF q = <<>>
    THEN SummaryResponse(n, ingr)
    ELSE LET r == LoopBody(q, ingr, cb)
         IN IF r.response.status # 0
            THEN r.response
            ELSE ExpansionLoop(n, r.queue, r.ingredients, cb)

summary(n, cb) ==
    IF RootResponse(n, cb).status # 0
    THEN RootResponse(n, cb)
    ELSE LET target == look_for_item(n, cb)
         IN ExpansionLoop(n, <<target.name>>, <<NewKey(target.name, 1)>>, cb)

(* ----------------------------------------------------- parse_handwriting *)
(* A str is the sequence of its characters.  The characters posted: two   *)
(* letters in both cases, the two characters line 69 replaces, two        *)
(* whitespace characters and a digit.                                     *)
Chars == {"a", "A", "b", "B", "-", "_", " ", "\t", "1"}

Str(s) == [type |-> "str", value |-> s]

(* [a-zA-Z] *)
IsLower(c) == c \in {"a", "b"}
IsUpper(c) == c \in {"A", "B"}
IsLetter(c) == IsLower(c) \/ IsUpper(c)
(* \s *)
IsSpace(c) == c \in {" ", "\t"}

Upper(c) == IF c = "a" THEN "A" ELSE IF c = "b" THEN "B" ELSE c
Lower(c) == IF c = "A" THEN "a" ELSE IF c = "B" THEN "b" ELSE c

(* re.sub(r'[-_]', ' ', recipeName) *)
SubHyphens(s) ==
    [i \in 1..Len(s) |-> IF s[i] \in {"-", "_"} THEN " " ELSE s[i]]

(* re.sub(r'[^a-zA-Z\s]', '', recipeName) *)
SubNonLetters(s) == SelectSeq(s, LAMBDA c : IsLetter(c) \/ IsSpace(c))

(* every letter left as it was written *)
TitleUnchanged(s) == s
(* str.title(): a letter after a letter is lowered, any other letter is   *)
(* raised                                                                 *)
Title(s) ==
    [i \in 1..Len(s) |->
        IF ~IsLetter(s[i]) THEN s[i]
        ELSE IF i > 1 /\ IsLetter(s[i - 1]) THEN Lower(s[i])
        ELSE Upper(s[i])]

(* re.sub(r'\s+', ' ', recipeName): each run of whitespace becomes one    *)
(* space                                                                  *)
RECURSIVE SubSpaces(_)
SubSpaces(s) ==
    IF s = <<>> THEN <<>>
    ELSE IF ~IsSpace(Head(s)) THEN <<Head(s)>> \o SubSpaces(Tail(s))
    ELSE IF Len(s) > 1 /\ IsSpace(s[2]) THEN SubSpaces(Tail(s))
    ELSE <<" ">> \o SubSpaces(Tail(s))

RECURSIVE LStrip(_)
LStrip(s) ==
    IF s # <<>> /\ IsSpace(Head(s)) THEN LStrip(Tail(s)) ELSE s

RECURSIVE RStrip(_)
RStrip(s) ==
    IF s # <<>> /\ IsSpace(s[Len(s)])
    THEN RStrip(SubSeq(s, 1, Len(s) - 1))
    ELSE s

(* only the leading whitespace removed *)
StripLeftOnly(s) == LStrip(s)
(* str.strip() *)
Strip(s) == RStrip(LStrip(s))

parse_handwriting(recipeName) ==
    LET stripped == Strip(SubSpaces(Title(SubNonLetters(SubHyphens(recipeName)))))
    IN IF Len(stripped) = 0 THEN None ELSE Str(stripped)

(* the /parse handler *)
parse(input) ==
    LET parsed_name == parse_handwriting(input)
    IN IF parsed_name = None
       THEN [status |-> 400, error |-> "Invalid recipe name"]
       ELSE [status |-> 200, msg |-> parsed_name.value]

(* ---------------------------------------------------------------- state *)
VARIABLES
    cookbook,      \* the lines of cookbook.json
    pc,            \* the /summary request: "idle", "loop" (at the test of
                   \* `while queue`), "body" (item found) or "done"
    name,          \* its query parameter
    book,          \* its local `cookbook`, read once
    queue,         \* its local `queue`
    current,       \* its local `current`
    ingredients,   \* its local `ingredients`
    result,        \* its response
    threads,       \* the /entry requests being handled, one per thread
    input,         \* the /parse request: its `input`
    parsed         \* its response

vars == <<cookbook, pc, name, book, queue, current, ingredients, result,
          threads, input, parsed>>

(* the threads of the server that handle /entry requests *)
Threads == {1, 2}

IdleThreads ==
    [t \in Threads |-> [pc |-> "idle", data |-> None, response |-> NoResponse]]

(* ------------------------------------------------------ request payloads *)
RECURSIVE SeqsUpTo(_, _)
SeqsUpTo(S, n) ==
    IF n = 0 THEN {<<>>}
    ELSE LET shorter == SeqsUpTo(S, n - 1)
         IN shorter \cup {Append(s, x) : s \in shorter, x \in S}

Items(ns, qs) == [name : ns, quantity : qs]

Requests ==
    [type : {"ingredient"}, name : EntryNames, cookTime : -1..MaxCookTime]
    \cup [type : {"recipe"}, name : EntryNames,
          requiredItems : SeqsUpTo(Items(EntryNames, 0..1), MaxItems)]
    \cup [type : {"sauce"}, name : EntryNames]

(* -------------------------------------------------------------- actions *)
CreateEntry(data) ==
    /\ cookbook' = IF create_entry(data, cookbook).status = 200
                   THEN store_cookbook(data, cookbook)
                   ELSE cookbook
    /\ UNCHANGED <<pc, name, book, queue, current, ingredients, result>>
    /\ UNCHANGED <<threads, input, parsed>>

SummaryStart(n) ==
    /\ pc = "idle"
    /\ name' = n
    /\ book' = cookbook
    /\ LET target == look_for_item(n, cookbook)
       IN IF RootResponse(n, cookbook).status # 0
          THEN /\ result' = RootResponse(n, cookbook)
               /\ pc' = "done"
               /\ UNCHANGED <<queue, ingredients>>
          ELSE /\ ingredients' = <<NewKey(target.name, 1)>>
               /\ queue' = <<target.name>>
               /\ pc' = "loop"
               /\ UNCHANGED result
    /\ UNCHANGED <<cookbook, current>>
    /\ UNCHANGED <<threads, input, parsed>>

(* the file read again on every lookup of the loop *)
LoopCookbookReread(local, file) == file
(* the cookbook the loop looks names up in (line 160): the local list     *)
(* read once at line 139, not the file                                    *)
LoopCookbook(local, file) == local

WithinBounds(q, ingr) ==
    /\ Len(q) <= MaxQueueLen
    /\ \A i \in 1..Len(ingr) : ingr[i].quantity <= MaxDemand

(* line 158-162: pop the head of the queue and look it up *)
SummaryDequeue ==
    /\ pc = "loop"
    /\ queue # <<>>
    /\ current' = Head(queue)
    /\ IF look_for_item(Head(queue), LoopCookbook(book, cookbook)).type = "none"
       THEN LET r == MissingItem(queue, ingredients)
            IN /\ queue' = r.queue
               /\ ingredients' = r.ingredients
               /\ IF r.response.status # 0
                  THEN result' = r.response /\ pc' = "done"
                  ELSE UNCHANGED <<result, pc>>
       ELSE /\ queue' = Dequeued(queue)
            /\ pc' = "body"
            /\ UNCHANGED <<ingredients, result>>
    /\ UNCHANGED <<cookbook, name, book>>
    /\ UNCHANGED <<threads, input, parsed>>

(* line 164-191: expand a recipe, or record an ingredient's cook time *)
SummaryExpand ==
    /\ pc = "body"
    /\ LET r == Expand(look_for_item(current, LoopCookbook(book, cookbook)),
                       queue, ingredients)
       IN /\ WithinBounds(r.queue, r.ingredients)
          /\ queue' = r.queue
          /\ ingredients' = r.ingredients
          /\ IF r.response.status # 0
             THEN result' = r.response /\ pc' = "done"
             ELSE result' = result /\ pc' = "loop"
    /\ UNCHANGED <<cookbook, name, book, current>>
    /\ UNCHANGED <<threads, input, parsed>>

(* a finish that also writes the summary into the cookbook file *)
SummaryFinishStoring ==
    /\ pc = "loop"
    /\ queue = <<>>
    /\ result' = SummaryResponse(name, ingredients)
    /\ pc' = "done"
    /\ cookbook' = Append(cookbook, [type |-> "summary", name |-> name])
    /\ UNCHANGED <<name, book, queue, current, ingredients>>
    /\ UNCHANGED <<threads, input, parsed>>

SummaryFinish ==
    /\ pc = "loop"
    /\ queue = <<>>
    /\ result' = SummaryResponse(name, ingredients)
    /\ pc' = "done"
    /\ UNCHANGED <<cookbook, name, book, queue, current, ingredients>>
    /\ UNCHANGED <<threads, input, parsed>>

SummaryRespond ==
    /\ pc = "done"
    /\ pc' = "idle"
    /\ name' = ""
    /\ book' = <<>>
    /\ queue' = <<>>
    /\ current' = ""
    /\ ingredients' = <<>>
    /\ result' = NoResponse
    /\ UNCHANGED cookbook
    /\ UNCHANGED <<threads, input, parsed>>

Init ==
    /\ cookbook = <<>>
    /\ pc = "idle"
    /\ name = ""
    /\ book = <<>>
    /\ queue = <<>>
    /\ current = ""
    /\ ingredients = <<>>
    /\ result = NoResponse
    /\ threads = IdleThreads
    /\ input = <<>>
    /\ parsed = NoResponse

Next ==
    \/ \E data \in Requests : CreateEntry(data)
    \/ \E n \in EntryNames : SummaryStart(n)
    \/ SummaryDequeue
    \/ SummaryExpand
    \/ SummaryFinish
    \/ SummaryRespond

Spec == Init /\ [][Next]_vars

(* the handler keeps running: an iteration that can be taken is taken *)
FairSpec ==
    Spec /\ WF_vars(SummaryDequeue) /\ WF_vars(SummaryExpand)
         /\ WF_vars(SummaryFinish)

(* --------------------------------------------- create_entry requests only *)
NextEntry == \E data \in Requests : CreateEntry(data)

EntrySpec == Init /\ [][NextEntry]_vars

(* ------------------------------------------ create_entry, thread by thread *)
(* Requests handled by concurrent threads: each outcome of the validation *)
(* of create_entry on each name.                                          *)
ThreadRequests ==
    [type : {"ingredient"}, name : EntryNames, cookTime : {-1, 0}]
    \cup [type : {"recipe"}, name : EntryNames,
          requiredItems : {<<>>, <<[name |-> "A", quantity |-> 1],
                                   [name |-> "A", quantity |-> 1]>>}]
    \cup [type : {"sauce"}, name : EntryNames]

(* create_entry up to its return or its call of store_cookbook: the file  *)
(* is read and the payload validated against what was read                *)
EntryRead(t, data) ==
    /\ threads[t].pc = "idle"
    /\ LET response == create_entry(data, cookbook)
       IN threads' = [threads EXCEPT ![t] =
              IF response.status = 200
              THEN [pc |-> "store", data |-> data, response |-> NoResponse]
              ELSE [pc |-> "idle", data |-> data, response |-> response]]
    /\ UNCHANGED <<cookbook, pc, name, book, queue, current, ingredients,
                   result, input, parsed>>

(* store_cookbook and the 200 response: the line is appended to the file  *)
(* as it is now                                                           *)
EntryStore(t) ==
    /\ threads[t].pc = "store"
    /\ cookbook' = store_cookbook(threads[t].data, cookbook)
    /\ threads' = [threads EXCEPT ![t] =
           [pc |-> "idle", data |-> threads[t].data,
            response |-> [status |-> 200]]]
    /\ UNCHANGED <<pc, name, book, queue, current, ingredients, result,
                   input, parsed>>

NextThreads ==
    \/ \E t \in Threads, data \in ThreadRequests : EntryRead(t, data)
    \/ \E t \in Threads : EntryStore(t)

ThreadSpec == Init /\ [][NextThreads]_vars

(* ---------------------------------------------------------------- /parse *)
Strings == SeqsUpTo(Chars, MaxLen)

Parse ==
    /\ parsed = NoResponse
    /\ parsed' = parse(input)
    /\ UNCHANGED <<cookbook, pc, name, book, queue, current, ingredients,
                   result, threads, input>>

(* the client posts the name it was given *)
ParseAgain ==
    /\ parsed.status = 200
    /\ input' = parsed.msg
    /\ parsed' = NoResponse
    /\ UNCHANGED <<cookbook, pc, name, book, queue, current, ingredients,
                   result, threads>>

InitParse ==
    /\ cookbook = <<>>
    /\ pc = "idle"
    /\ name = ""
    /\ book = <<>>
    /\ queue = <<>>
    /\ current = ""
    /\ ingredients = <<>>
    /\ result = NoResponse
    /\ threads = IdleThreads
    /\ input \in Strings
    /\ parsed = NoResponse

NextParse == Parse \/ ParseAgain

ParseSpec == InitParse /\ [][NextParse]_vars

(* ------------------------------------------- summary on bounded cookbooks *)
(* Cookbooks create_entry can have stored: names unique, requiredItems     *)
(* names unique, cookTime >= 0. Entries are listed in NameOrder and a      *)
(* recipe names only later names, so every one of them is acyclic; any     *)
(* name may be absent, so references to missing entries occur. Quantities  *)
(* are 1 or MaxQuantity.                                                   *)
NoDupItemLists(ns, qs) ==
    {s \in SeqsUpTo(Items(ns, qs), MaxItems) : Cardinality(ItemNames(s)) = Len(s)}

LaterNames(i) == {NameOrder[j] : j \in (i + 1)..Len(NameOrder)}

EntriesFor(i) ==
    [type : {"ingredient"}, name : {NameOrder[i]}, cookTime : 0..MaxCookTime]
    \cup [type : {"recipe"}, name : {NameOrder[i]},
          requiredItems : NoDupItemLists(LaterNames(i), {1, MaxQuantity})]

RECURSIVE CookbooksFrom(_)
CookbooksFrom(i) ==
    IF i > Len(NameOrder) THEN {<<>>}
    ELSE LET rest == CookbooksFrom(i + 1)
         IN rest \cup {<<e>> \o cb : e \in EntriesFor(i), cb \in rest}

InitSummary ==
    /\ cookbook \in CookbooksFrom(1)
    /\ pc = "idle"
    /\ name = ""
    /\ book = <<>>
    /\ queue = <<>>
    /\ current = ""
    /\ ingredients = <<>>
    /\ result = NoResponse
    /\ threads = IdleThreads
    /\ input = <<>>
    /\ parsed = NoResponse

NextSummary ==
    \/ \E n \in Names : SummaryStart(n)
    \/ SummaryDequeue
    \/ SummaryExpand
    \/ SummaryFinish
    \/ SummaryRespond

SummarySpec == InitSummary /\ [][NextSummary]_vars

(* The same cookbooks with one cook time and one quantity: every shape of  *)
(* acyclic composition graph over NameOrder, for the claims that depend on *)
(* the shape alone.                                                        *)
ShapeEntriesFor(i) ==
    [type : {"ingredient"}, name : {NameOrder[i]}, cookTime : {MaxCookTime}]
    \cup [type : {"recipe"}, name : {NameOrder[i]},
          requiredItems : NoDupItemLists(LaterNames(i), {MaxQuantity})]

RECURSIVE ShapeCookbooksFrom(_)
ShapeCookbooksFrom(i) ==
    IF i > Len(NameOrder) THEN {<<>>}
    ELSE LET rest == ShapeCookbooksFrom(i + 1)
         IN rest \cup {<<e>> \o cb : e \in ShapeEntriesFor(i), cb \in rest}

InitShapes ==
    /\ cookbook \in ShapeCookbooksFrom(1)
    /\ pc = "idle"
    /\ name = ""
    /\ book = <<>>
    /\ queue = <<>>
    /\ current = ""
    /\ ingredients = <<>>
    /\ result = NoResponse
    /\ threads = IdleThreads
    /\ input = <<>>
    /\ parsed = NoResponse

(* the handler keeps running: a step that can be taken is taken *)
FairShapeSpec ==
    /\ InitShapes
    /\ [][NextSummary]_vars
    /\ WF_vars(SummaryDequeue) /\ WF_vars(SummaryExpand) /\ WF_vars(SummaryFinish)

(* ------------------------------------------------ the composition graph *)
TypeOf(cb, n) == look_for_item(n, cb).type

RequiredOf(cb, n) ==
    IF TypeOf(cb, n) = "recipe" THEN look_for_item(n, cb).requiredItems ELSE <<>>

Children(cb, n) == ItemNames(RequiredOf(cb, n))

RECURSIVE ReachFrom(_, _)
ReachFrom(cb, S) ==
    LET T == S \cup UNION {Children(cb, n) : n \in S}
    IN IF T = S THEN S ELSE ReachFrom(cb, T)

(* the names the root reaches through requiredItems, itself included *)
Reachable(cb, root) == ReachFrom(cb, {root})

CycleReachable(cb, root) ==
    \E n \in Reachable(cb, root) : n \in ReachFrom(cb, Children(cb, n))

MissingReachable(cb, root) ==
    \E n \in Reachable(cb, root) : TypeOf(cb, n) = "none"

ReachableIngredients(cb, root) ==
    {n \in Reachable(cb, root) : TypeOf(cb, n) = "ingredient"}

RECURSIVE SumSeq(_)
SumSeq(s) == IF s = <<>> THEN 0 ELSE Head(s) + SumSeq(Tail(s))

RECURSIVE SumOver(_, _)
SumOver(S, f) ==
    IF S = {} THEN 0
    ELSE LET x == CHOOSE y \in S : TRUE IN f[x] + SumOver(S \ {x}, f)

(* the sum, over the composition paths from root to n, of the product of  *)
(* the quantities along the path; defined where no cycle is reachable     *)
RECURSIVE PathSum(_, _, _)
PathSum(cb, root, n) ==
    IF n = root THEN 1
    ELSE LET parents == {p \in Reachable(cb, root) : n \in Children(cb, p)}
             through == [p \in parents |->
                            LET items == RequiredOf(cb, p)
                            IN PathSum(cb, root, p)
                               * SumSeq([i \in 1..Len(items) |->
                                           IF items[i].name = n
                                           THEN items[i].quantity ELSE 0])]
         IN SumOver(parents, through)

Succeeded == pc = "done" /\ result.status = 200

ReturnedNames == {result.ingredients[i].name : i \in 1..Len(result.ingredients)}

(* ---------------------------------------------------------------- claims *)

(* C1: on an acyclic cookbook whose reachable names all resolve, a         *)
(* successful summary of a recipe reports exactly the reachable            *)
(* ingredients, each with the sum over the composition paths of the        *)
(* product of the quantities along the path.                               *)
C1_QuantitiesArePathSums ==
    (Succeeded /\ ~CycleReachable(book, name) /\ ~MissingReachable(book, name))
        => /\ ReturnedNames = ReachableIngredients(book, name)
           /\ \A i \in 1..Len(result.ingredients) :
                 result.ingredients[i].quantity
                     = PathSum(book, name, result.ingredients[i].name)

(* a leaf reached at two depths, through a nested recipe and directly *)
C1_Witness ==
    /\ Succeeded
    /\ \E f \in ReturnedNames, p \in Children(book, name) :
          /\ f \in Children(book, name)
          /\ TypeOf(book, p) = "recipe"
          /\ f \in Children(book, p)
          /\ PathSum(book, name, f) > MaxQuantity + 1

(* C3: in a successful summary cookTime is the sum over the returned      *)
(* ingredients of quantity times the cookbook's cookTime, and every key    *)
(* left in the map carries the cookbook's cookTime.                        *)
C3_CookTimeIsWeightedSum ==
    Succeeded
        => /\ \A i \in 1..Len(ingredients) :
                 /\ TypeOf(book, ingredients[i].name) = "ingredient"
                 /\ ingredients[i].unit_cook_time
                        = look_for_item(ingredients[i].name, book).cookTime
           /\ result.cookTime
                 = SumSeq([i \in 1..Len(result.ingredients) |->
                             result.ingredients[i].quantity
                             * look_for_item(result.ingredients[i].name, book).cookTime])

C3_Witness ==
    /\ Succeeded
    /\ Len(result.ingredients) >= 2
    /\ result.cookTime > MaxCookTime
    /\ \E i \in 1..Len(ingredients) : ingredients[i].unit_cook_time > 0

(* C4: a successful summary returns only names whose cookbook entry is an *)
(* ingredient, each at most once.                                          *)
C4_OnlyIngredientsOnce ==
    Succeeded
        => /\ \A i \in 1..Len(result.ingredients) :
                 TypeOf(book, result.ingredients[i].name) = "ingredient"
           /\ \A i, j \in 1..Len(result.ingredients) :
                 result.ingredients[i].name = result.ingredients[j].name => i = j

(* the root lists a recipe c before a recipe p that also requires c: c is  *)
(* expanded, then added to the map again by p                              *)
ReAdded(cb, root) ==
    LET items == RequiredOf(cb, root)
    IN \E i, j \in 1..Len(items) :
          /\ i < j
          /\ TypeOf(cb, items[i].name) = "recipe"
          /\ RequiredOf(cb, items[i].name) # <<>>
          /\ TypeOf(cb, items[j].name) = "recipe"
          /\ items[i].name \in Children(cb, items[j].name)

C4_Witness ==
    /\ Succeeded
    /\ ReAdded(book, name)
    /\ result.ingredients # <<>>

(* C5: when every requiredItems quantity of the cookbook is > 0, a        *)
(* successful summary returns no entry of quantity <= 0.                   *)
AllQuantitiesPositive(cb) ==
    \A e \in 1..Len(cb) :
        cb[e].type = "recipe"
            => \A i \in 1..Len(cb[e].requiredItems) :
                  cb[e].requiredItems[i].quantity > 0

C5_NoZeroQuantity ==
    (Succeeded /\ AllQuantitiesPositive(book))
        => \A i \in 1..Len(result.ingredients) :
              result.ingredients[i].quantity > 0

(* the root lists a recipe p before a recipe c that p also requires: c is  *)
(* queued twice and its second expansion pops nothing                      *)
PoppedTwice(cb, root) ==
    LET items == RequiredOf(cb, root)
    IN \E i, j \in 1..Len(items) :
          /\ i < j
          /\ TypeOf(cb, items[i].name) = "recipe"
          /\ TypeOf(cb, items[j].name) = "recipe"
          /\ RequiredOf(cb, items[j].name) # <<>>
          /\ items[j].name \in Children(cb, items[i].name)

C5_Witness ==
    /\ Succeeded
    /\ AllQuantitiesPositive(book)
    /\ PoppedTwice(book, name)
    /\ result.ingredients # <<>>

(* C6: when a name reachable from the root recipe is absent from the      *)
(* cookbook, a finished summary is the error response, never a Summary.   *)
C6_MissingReferenceFails ==
    (pc = "done" /\ TypeOf(book, name) = "recipe" /\ MissingReachable(book, name))
        => result = ItemError

(* the missing name sits two levels below the root, after resolved ones *)
C6_Witness ==
    /\ pc = "done"
    /\ result = ItemError
    /\ \E p \in Children(book, name) : \E m \in Children(book, p) :
          /\ TypeOf(book, m) = "none"
          /\ m \notin Children(book, name)
          /\ ReachableIngredients(book, name) # {}

(* C10: the outcome of a summary does not depend on the order of any      *)
(* recipe's requiredItems: on every cookbook that differs from the one     *)
(* read only by permuting requiredItems, summary returns the same response *)
(* up to the order of the ingredients list.                                *)
Perms(s) ==
    {t \in [1..Len(s) -> {s[i] : i \in 1..Len(s)}] :
        \A i \in 1..Len(s) : \E j \in 1..Len(s) : t[j] = s[i]}

RECURSIVE PermutedBooks(_)
PermutedBooks(cb) ==
    IF cb = <<>> THEN {<<>>}
    ELSE LET e == Head(cb)
             variants == IF e.type = "recipe"
                         THEN {[e EXCEPT !.requiredItems = t] :
                                  t \in Perms(e.requiredItems)}
                         ELSE {e}
         IN {<<v>> \o rest : v \in variants, rest \in PermutedBooks(Tail(cb))}

Outcome(r) ==
    IF r.status = 200
    THEN [status |-> 200, name |-> r.name, cookTime |-> r.cookTime,
          pairs |-> {<<r.ingredients[i].name, r.ingredients[i].quantity>> :
                        i \in 1..Len(r.ingredients)},
          entries |-> Len(r.ingredients)]
    ELSE r

C10_OrderIndependent ==
    pc = "done"
        => \A cb \in PermutedBooks(book) :
              Outcome(summary(name, cb)) = Outcome(result)

(* a permutation that turns "queued twice" into "expanded, then re-added" *)
C10_Witness ==
    /\ Succeeded
    /\ PoppedTwice(book, name)
    /\ result.ingredients # <<>>
    /\ \E cb \in PermutedBooks(book) :
          /\ cb # book
          /\ ReAdded(cb, name)
          /\ summary(name, cb).status = 200

(* C2: a summary whose root reaches a cycle does not loop forever: it     *)
(* ends with an error response. The handler has no response of its own     *)
(* for a cycle, so any error response counts as the rejection; a run the   *)
(* bounds MaxQueueLen and MaxDemand cut short is not counted as looping.   *)
Truncated ==
    /\ pc = "body"
    /\ LET r == Expand(look_for_item(current, book), queue, ingredients)
       IN ~WithinBounds(r.queue, r.ingredients)

C2_CycleRejected ==
    (pc \in {"loop", "body"} /\ CycleReachable(book, name))
        ~> ((pc = "done" /\ result.status = 400) \/ Truncated)

(* C7: a summary of a name that is absent or names an ingredient fails    *)
(* without any expansion, and the response for an ingredient differs from  *)
(* the response for an absent name.                                        *)
C7_RootErrorsDistinct ==
    (pc = "done" /\ TypeOf(book, name) \in {"none", "ingredient"})
        => /\ result.status = 400
           /\ queue = <<>>
           /\ ingredients = <<>>
           /\ \A n \in EntryNames :
                 (/\ TypeOf(book, n) \in {"none", "ingredient"}
                  /\ TypeOf(book, n) # TypeOf(book, name))
                     => RootResponse(n, book) # result

(* C8: in the stored cookbook no two entries share a name, no recipe's    *)
(* requiredItems names an item twice, and no ingredient has a negative     *)
(* cookTime.                                                               *)
C8_CatalogInvariants ==
    /\ \A i, j \in 1..Len(cookbook) :
          cookbook[i].name = cookbook[j].name => i = j
    /\ \A i \in 1..Len(cookbook) :
          /\ cookbook[i].type = "recipe"
                => \A k, l \in 1..Len(cookbook[i].requiredItems) :
                      cookbook[i].requiredItems[k].name
                          = cookbook[i].requiredItems[l].name => k = l
          /\ cookbook[i].type = "ingredient" => cookbook[i].cookTime >= 0

(* an ingredient and a recipe of two items have both been accepted *)
C8_Witness ==
    /\ Len(cookbook) = 2
    /\ \E i, j \in 1..Len(cookbook) :
          /\ cookbook[i].type = "ingredient"
          /\ cookbook[j].type = "recipe"
          /\ Len(cookbook[j].requiredItems) >= 2

(* C9: every recipe stored in the cookbook has only requiredItems         *)
(* quantities > 0.                                                         *)
C9_QuantitiesPositive == AllQuantitiesPositive(cookbook)

(* C11: a summary works on the cookbook as it was when the request read   *)
(* it: the finished request's response is the response of summary on the   *)
(* list read at its start, whatever create_entry has appended to the file  *)
(* since, and that list is still the beginning of the file.                *)
IsPrefix(s, t) == Len(s) <= Len(t) /\ SubSeq(t, 1, Len(s)) = s

C11_SnapshotRead ==
    /\ pc # "idle" => IsPrefix(book, cookbook)
    /\ pc = "done" => result = summary(name, book)

(* the request failed on a name that the file holds by now, created after  *)
(* the request had read the cookbook                                       *)
C11_Witness ==
    /\ pc = "done"
    /\ result = ItemError
    /\ TypeOf(book, current) = "none"
    /\ TypeOf(cookbook, current) # "none"

(* C13: a create_entry request that is rejected (invalid type, negative   *)
(* cookTime, duplicate name, duplicate requiredItems name) leaves the file *)
(* as it was; an accepted one appends exactly the submitted entry after    *)
(* the existing records, none of them changed or reordered.                *)
MustReject(data, cb) ==
    \/ data.type \notin {"recipe", "ingredient"}
    \/ data.type = "ingredient" /\ data.cookTime < 0
    \/ \E i \in 1..Len(cb) : cb[i].name = data.name
    \/ /\ data.type = "recipe"
       /\ \E k, l \in 1..Len(data.requiredItems) :
             k # l /\ data.requiredItems[k].name = data.requiredItems[l].name

C13_AppendOnly ==
    [][\A data \in Requests :
          CreateEntry(data)
              => IF MustReject(data, cookbook)
                 THEN cookbook' = cookbook
                 ELSE /\ Len(cookbook') = Len(cookbook) + 1
                      /\ SubSeq(cookbook', 1, Len(cookbook)) = cookbook
                      /\ cookbook'[Len(cookbook')] = data]_vars

(* a recipe was accepted after an ingredient it names, both kept in order *)
C13_Witness ==
    /\ Len(cookbook) = 2
    /\ cookbook[1].type = "ingredient"
    /\ cookbook[2].type = "recipe"
    /\ cookbook[1].name \in ItemNames(cookbook[2].requiredItems)

C17_DequeuedIngredientIsKey ==
    /\ result # KeyError
    /\ (pc = "body" /\ TypeOf(book, current) = "ingredient")
          => DictHas(ingredients, current)
    /\ pc \in {"loop", "body"}
          => \A i \in 1..Len(queue) :
                TypeOf(book, queue[i]) = "ingredient"
                    => DictHas(ingredients, queue[i])

(* an ingredient is dequeued again, its demand grown, on a cyclic cookbook *)
C17_Witness ==
    /\ pc = "body"
    /\ TypeOf(book, current) = "ingredient"
    /\ CycleReachable(book, name)
    /\ DictGet(ingredients, current).quantity > 1

(* C15: on an acyclic cookbook whose reachable names all resolve, the     *)
(* handler's worklist of bare names gives the same quantity for every      *)
(* ingredient and the same cookTime as the specified algorithm, a FIFO     *)
(* frontier of (name, multiplier) pairs with totals and unitCookTime.      *)
Bump(totals, n, q) ==
    [k \in DOMAIN totals \cup {n} |->
        (IF k \in DOMAIN totals THEN totals[k] ELSE 0) + (IF k = n THEN q ELSE 0)]

RECURSIVE FrontierChildren(_, _, _, _)
FrontierChildren(items, multiplier, frontier, totals) ==
    IF items = <<>>
    THEN [frontier |-> frontier, totals |-> totals]
    ELSE LET child == Head(items)
             demand == multiplier * child.quantity
         IN FrontierChildren(Tail(items), multiplier,
                             Append(frontier, [name |-> child.name,
                                               multiplier |-> demand]),
                             Bump(totals, child.name, demand))

RECURSIVE FrontierRun(_, _, _, _)
FrontierRun(frontier, totals, unitCookTime, cb) ==
    IF frontier = <<>>
    THEN [error |-> "", totals |-> totals, unitCookTime |-> unitCookTime]
    ELSE LET head == Head(frontier)
             entry == look_for_item(head.name, cb)
         IN IF entry.type = "none"
            THEN [error |-> "MissingReference", totals |-> totals,
                  unitCookTime |-> unitCookTime]
            ELSE IF entry.type = "recipe"
            THEN LET r == FrontierChildren(entry.requiredItems, head.multiplier,
                                           Tail(frontier), totals)
                 IN FrontierRun(r.frontier, r.totals, unitCookTime, cb)
            ELSE FrontierRun(Tail(frontier), totals,
                             Bump(unitCookTime, head.name,
                                  entry.cookTime
                                  - (IF head.name \in DOMAIN unitCookTime
                                     THEN unitCookTime[head.name] ELSE 0)),
                             cb)

Summarize(rootName, cb) ==
    LET run == FrontierRun(<<[name |-> rootName, multiplier |-> 1]>>,
                           <<>>, <<>>, cb)
        kept == {n \in DOMAIN run.totals :
                    TypeOf(cb, n) = "ingredient" /\ run.totals[n] > 0}
    IN [error |-> run.error,
        quantity |-> [n \in Names |-> IF n \in kept THEN run.totals[n] ELSE 0],
        cookTime |-> SumOver({n \in DOMAIN run.totals : TypeOf(cb, n) = "ingredient"},
                             [n \in DOMAIN run.totals |->
                                 IF n \in DOMAIN run.unitCookTime
                                 THEN run.totals[n] * run.unitCookTime[n]
                                 ELSE 0])]

ReturnedQuantity(n) ==
    SumSeq([i \in 1..Len(result.ingredients) |->
               IF result.ingredients[i].name = n
               THEN result.ingredients[i].quantity ELSE 0])

C15_WorklistMatchesFrontier ==
    (Succeeded /\ ~CycleReachable(book, name) /\ ~MissingReachable(book, name))
        => LET specified == Summarize(name, book)
           IN /\ specified.error = ""
              /\ \A n \in Names : specified.quantity[n] = ReturnedQuantity(n)
              /\ specified.cookTime = result.cookTime

(* a recipe expanded once by the worklist with its whole demand, and twice *)
(* by the frontier, once per referencing path                              *)
C15_Witness ==
    /\ Succeeded
    /\ \E c \in Reachable(book, name) :
          /\ TypeOf(book, c) = "recipe"
          /\ ReachableIngredients(book, c) # {}
          /\ Cardinality({p \in Reachable(book, name) : c \in Children(book, p)}) >= 2
    /\ result.cookTime > 0

(* C16: on an acyclic cookbook the expansion loop ends: a request that is *)
(* in the loop reaches its response, a summary or the missing-item error.  *)
C16_LoopTerminates ==
    pc \in {"loop", "body"}
        ~> (pc = "done" /\ (result.status = 200 \/ result = ItemError))

(* the last name is required by every recipe above it, and is queued once  *)
(* per referencing path                                                     *)
C16_Witness ==
    /\ Succeeded
    /\ ~CycleReachable(book, name)
    /\ \E f \in ReachableIngredients(book, name) :
          Cardinality({p \in Reachable(book, name) : f \in Children(book, p)}) >= 3

(* C12: under every interleaving of concurrent create_entry requests the  *)
(* stored cookbook never holds two entries of the same name, and two      *)
(* requests carrying the same new name are never both accepted.           *)
C12_NoDuplicateNames ==
    /\ \A i, j \in 1..Len(cookbook) :
           cookbook[i].name = cookbook[j].name => i = j
    /\ \A s, t \in Threads :
           (/\ s # t
            /\ threads[s].response.status = 200
            /\ threads[t].response.status = 200)
           => threads[s].data.name # threads[t].data.name

(* C18: parse_handwriting returns None exactly when the input holds no    *)
(* letter; otherwise it returns a non-empty string of letters and single  *)
(* spaces, without a leading or trailing space, each word one capital     *)
(* letter followed by lowercase letters, and parse_handwriting returns    *)
(* that string unchanged.                                                 *)
HasLetter(s) == \E i \in 1..Len(s) : IsLetter(s[i])

WellFormedName(r) ==
    /\ Len(r) > 0
    /\ \A i \in 1..Len(r) : IsLetter(r[i]) \/ r[i] = " "
    /\ r[1] # " " /\ r[Len(r)] # " "
    /\ \A i \in 1..(Len(r) - 1) : ~(r[i] = " " /\ r[i + 1] = " ")
    /\ \A i \in 1..Len(r) :
           IsLetter(r[i]) =>
               IF i = 1 \/ r[i - 1] = " " THEN IsUpper(r[i]) ELSE IsLower(r[i])

C18_ParseHandwriting ==
    parsed # NoResponse =>
        /\ (parse_handwriting(input) = None) <=> ~HasLetter(input)
        /\ (parsed.status = 400) <=> ~HasLetter(input)
        /\ parsed.status = 200 =>
               /\ WellFormedName(parsed.msg)
               /\ parse_handwriting(parsed.msg) = Str(parsed.msg)

(* "aB_-" style input: a word in mixed case, replaced and stripped        *)
(* characters, and a name of two words                                    *)
C18_Witness ==
    /\ parsed.status = 200
    /\ \E i \in 1..Len(parsed.msg) : parsed.msg[i] = " "
    /\ \E i \in 1..Len(input) : input[i] \in {"-", "_", "\t"}
    /\ Len(parsed.msg) < Len(input)

====
